---- MODULE Spec2Model ----
(***************************************************************************)
(* Model of hyvolex_paradigm: the magnetic-field interaction system       *)
(* (systems/magnetic.rs, components/magnetic_field.rs), the sphere         *)
(* tessellation and generate_helix (systems/generation.rs), the shapes and *)
(* create_mesh (components/shapes.rs, systems/mesh_generator.rs), the      *)
(* ErrorManager (err.rs) and the Update schedule (lib.rs).  Each part has  *)
(* its own specification over the variables it uses; the variables of the  *)
(* other parts stay at their idle values.                                  *)
(*                                                                         *)
(* f32 values are modelled in fixed point: a finite value is an integer    *)
(* number of 1/SCALE units, and NaN is a value of its own which every      *)
(* arithmetic operation propagates and every comparison answers FALSE for, *)
(* as IEEE-754 does.  Products and quotients round toward zero, so that    *)
(* the arithmetic is symmetric under negation like the f32 arithmetic.     *)
(***************************************************************************)
EXTENDS Integers, Sequences, FiniteSets

(***************************************************************************)
(* Bounds of the model.                                                    *)
(***************************************************************************)
MaxBodies == 2
MaxFrames == 1
MaxSegments == 4
MaxCalls == 3
MaxMeshCalls == 2
MaxErrors == 3
MaxUpdates == 2
MaxEmitters == 2
MaxEffects == 2
MaxEffectFrames == 2
MaxSeconds == 2

(***************************************************************************)
(* f32 arithmetic.                                                         *)
(***************************************************************************)
SCALE == 1000

NaN == [nan |-> TRUE, v |-> 0]
F(n) == [nan |-> FALSE, v |-> n]

Abs(n) == IF n < 0 THEN -n ELSE n

\* Integer quotient rounded toward zero.
TruncDiv(a, b) ==
    IF (a < 0) = (b < 0) THEN Abs(a) \div Abs(b) ELSE -(Abs(a) \div Abs(b))

FAdd(a, b) == IF a.nan \/ b.nan THEN NaN ELSE F(a.v + b.v)
FSub(a, b) == IF a.nan \/ b.nan THEN NaN ELSE F(a.v - b.v)
FNeg(a) == IF a.nan THEN NaN ELSE F(-a.v)
FMul(a, b) == IF a.nan \/ b.nan THEN NaN ELSE F(TruncDiv(a.v * b.v, SCALE))
\* 0.0 / 0.0 is NaN.  No modelled code divides a non-zero value by zero
\* (normalize is modelled on its own, VNormalize).
FDiv(a, b) ==
    IF a.nan \/ b.nan \/ (a.v = 0 /\ b.v = 0) THEN NaN
    ELSE F(TruncDiv(a.v * SCALE, b.v))
FGt(a, b) == ~a.nan /\ ~b.nan /\ a.v > b.v
FLe(a, b) == ~a.nan /\ ~b.nan /\ a.v <= b.v

\* Newton's iteration from x >= sqrt(n), down to floor(sqrt(n)).
RECURSIVE SqrtIter(_, _)
SqrtIter(n, x) ==
    LET y == (x + n \div x) \div 2
    IN  IF y >= x THEN x ELSE SqrtIter(n, y)

\* floor(sqrt(n)) for 0 <= n < 2^31
ISqrt(n) == IF n = 0 THEN 0 ELSE SqrtIter(n, IF n < 46340 THEN n ELSE 46340)

\* f32::sqrt of a value that is not negative
FSqrt(a) == IF a.nan THEN NaN ELSE F(ISqrt(a.v * SCALE))

TAU == 6283
PI == TAU \div 2
HALF_PI == TAU \div 4

\* sin on [0, PI], Bhaskara's rational approximation (error below 0.002).
SinHalfTurn(r) ==
    LET p == (r * (PI - r)) \div SCALE
        fiveP2 == (5 * PI * PI) \div SCALE
    IN  (16 * p * SCALE) \div (fiveP2 - 4 * p)

\* f32::sin, f32::cos: periodic, odd/even, any finite argument.
FSin(a) ==
    IF a.nan THEN NaN
    ELSE LET r == a.v % TAU
         IN  IF r <= PI THEN F(SinHalfTurn(r))
             ELSE F(-SinHalfTurn(r - PI))
FCos(a) == IF a.nan THEN NaN ELSE FSin(F(a.v + HALF_PI))

(***************************************************************************)
(* Vec3.                                                                   *)
(***************************************************************************)
Vec3(x, y, z) == [x |-> x, y |-> y, z |-> z]
ZERO == Vec3(F(0), F(0), F(0))
VAdd(a, b) == Vec3(FAdd(a.x, b.x), FAdd(a.y, b.y), FAdd(a.z, b.z))
VSub(a, b) == Vec3(FSub(a.x, b.x), FSub(a.y, b.y), FSub(a.z, b.z))
VScale(a, s) == Vec3(FMul(a.x, s), FMul(a.y, s), FMul(a.z, s))
VDivS(a, s) == Vec3(FDiv(a.x, s), FDiv(a.y, s), FDiv(a.z, s))
VDot(a, b) == FAdd(FAdd(FMul(a.x, b.x), FMul(a.y, b.y)), FMul(a.z, b.z))
VIsNaN(a) == a.x.nan \/ a.y.nan \/ a.z.nan
VLength(a) ==
    IF VIsNaN(a) THEN NaN
    ELSE F(ISqrt(a.x.v * a.x.v + a.y.v * a.y.v + a.z.v * a.z.v))
\* glam's normalize multiplies by 1/length: for the zero vector that is
\* 0 * inf = NaN in every component.
VNormalize(a) ==
    LET len == VLength(a)
    IN  IF len.nan \/ len.v = 0 THEN Vec3(NaN, NaN, NaN)
        ELSE VDivS(a, len)

(***************************************************************************)
(* Sphere tessellation (systems/generation.rs).  A vertex and a normal are *)
(* [f32; 3], an index is u32; the buffers are Vecs in push order.          *)
(***************************************************************************)
\* x = radius * phi.sin() * theta.cos(), y = radius * phi.cos(),
\* z = radius * phi.sin() * theta.sin()
SphereVertex(radius, phi, theta) ==
    << FMul(FMul(radius, FSin(phi)), FCos(theta)),
       FMul(radius, FCos(phi)),
       FMul(FMul(radius, FSin(phi)), FSin(theta)) >>

\* for segment in 0..=segments: the vertices pushed for one ring
RingVertices(radius, phi, segments) ==
    [k \in 1..(segments + 1) |->
        LET segment == k - 1
            theta == FDiv(FMul(FMul(F(2 * SCALE), F(PI)), F(segment * SCALE)),
                          F(segments * SCALE))
        IN  SphereVertex(radius, phi, theta)]

\* for ring in 0..=rings: the vertices pushed from this ring on
RECURSIVE VertexRings(_, _, _, _)
VertexRings(radius, segments, rings, ring) ==
    IF ring > rings THEN <<>>
    ELSE LET phi == FDiv(FMul(F(PI), F(ring * SCALE)), F(rings * SCALE))
         IN  RingVertices(radius, phi, segments)
                 \o VertexRings(radius, segments, rings, ring + 1)

generate_sphere_verticesFromOne(radius, segments, rings) ==
    VertexRings(radius, segments, rings, 1)

generate_sphere_vertices(radius, segments, rings) ==
    VertexRings(radius, segments, rings, 0)

\* The normal of one vertex: the position over its length, (0, 1, 0) when
\* the length is not above zero.
VertexNormal(vertex) ==
    LET x == vertex[1]
        y == vertex[2]
        z == vertex[3]
        length == FSqrt(FAdd(FAdd(FMul(x, x), FMul(y, y)), FMul(z, z)))
    IN  IF FGt(length, F(0))
        THEN << FDiv(x, length), FDiv(y, length), FDiv(z, length) >>
        ELSE << F(0), F(SCALE), F(0) >>

generate_sphere_normals(vertices) ==
    [i \in 1..Len(vertices) |-> VertexNormal(vertices[i])]

NextIndexTwoOn(current, segments) == current + segments + 2

\* let next = current + segments + 1
NextIndex(current, segments) == current + segments + 1

QuadIndicesOneTriangle(current, next) ==
    << current, next, current + 1, current, next, current + 1 >>

\* The two triangles of one quad.
QuadIndices(current, next) ==
    << current, next, current + 1, current + 1, next, next + 1 >>

\* for segment in 0..segments: the indices pushed from this segment on
RECURSIVE IndexSegments(_, _, _)
IndexSegments(segments, ring, segment) ==
    IF segment >= segments THEN <<>>
    ELSE LET current == ring * (segments + 1) + segment
             next == NextIndex(current, segments)
         IN  QuadIndices(current, next)
                 \o IndexSegments(segments, ring, segment + 1)

\* for ring in 0..rings: the indices pushed from this ring on
RECURSIVE IndexRings(_, _, _)
IndexRings(segments, rings, ring) ==
    IF ring >= rings THEN <<>>
    ELSE IndexSegments(segments, ring, 0)
             \o IndexRings(segments, rings, ring + 1)

generate_sphere_indices(segments, rings) == IndexRings(segments, rings, 0)

\* The attributes and indices inserted into a Mesh.
Mesh(vertices, normals, indices) ==
    [vertices |-> vertices, normals |-> normals, indices |-> indices]

(***************************************************************************)
(* MagneticField (components/magnetic_field.rs).                           *)
(***************************************************************************)
Polarity == {"North", "South"}

MagneticField(strength, polarity, orientation, interaction_radius) ==
    [strength |-> strength, polarity |-> polarity, orientation |-> orientation,
     interaction_radius |-> interaction_radius,
     particle_emission_rate |-> F(10 * SCALE)]

Ok(val) == [ok |-> TRUE, val |-> val]
Err == [ok |-> FALSE, val |-> NaN]


\* Mutant of InvalidStrength: `&&` for `||`.
InvalidStrengthBoth(self, other) ==
    FLe(self.strength, F(0)) /\ FLe(other.strength, F(0))

\* if self.strength <= 0.0 || other.strength <= 0.0 { return Err(..) }
InvalidStrength(self, other) ==
    FLe(self.strength, F(0)) \/ FLe(other.strength, F(0))


\* Mutant of InteractionStrength: the two branches exchanged.
InteractionStrengthSwapped(self, other) ==
    IF self.polarity = other.polarity
    THEN FMul(self.strength, other.strength)
    ELSE FMul(FNeg(self.strength), other.strength)

\* -self.strength * other.strength (repulsion), self.strength * other.strength
InteractionStrength(self, other) ==
    IF self.polarity = other.polarity
    THEN FMul(FNeg(self.strength), other.strength)
    ELSE FMul(self.strength, other.strength)

calculate_base_interaction(self, other) ==
    IF InvalidStrength(self, other) THEN Err
    ELSE Ok(InteractionStrength(self, other))

(***************************************************************************)
(* update_magnetic_fields (systems/magnetic.rs).                           *)
(* A body is an entity of the query: [translation, field].  The world is   *)
(* a function from the entity ids 1..n to bodies.                          *)
(***************************************************************************)
DAMPING == 950
INFLUENCE_GAIN == 100

Body(translation, field) == [translation |-> translation, field |-> field]

\* field_data: the (entity, translation, field) triples collected from the
\* query before any body is processed, in the query's iteration order.
FieldData(world, order) ==
    [k \in 1..Len(order) |->
        [entity |-> order[k], pos |-> world[order[k]].translation,
         field |-> world[order[k]].field]]


\* Mutant of RotateField: the strength * dt term left out.
RotateFieldNoSpin(field, delta) ==
    [field EXCEPT !.orientation =
        IF FGt(field.orientation, F(TAU)) THEN FSub(field.orientation, F(TAU))
        ELSE field.orientation]

\* field.orientation += field.strength * dt, minus TAU once if above TAU
RotateField(field, delta) ==
    LET o == FAdd(field.orientation, FMul(field.strength, delta))
    IN  [field EXCEPT !.orientation =
            IF FGt(o, F(TAU)) THEN FSub(o, F(TAU)) ELSE o]


\* Mutant of IsSelf: the self-pair guard left out.
IsSelfNever(entity, other_entity) == FALSE

\* if entity == other_entity { continue; }
IsSelf(entity, other_entity) == entity = other_entity


\* Mutant of TooFar: the distance is compared with the square of the sum.
TooFarSquaredSum(distance, field, other_field) ==
    LET sum == FAdd(field.interaction_radius, other_field.interaction_radius)
    IN  FGt(distance, FMul(sum, sum))

\* if distance > field.interaction_radius + other_field.interaction_radius
TooFar(distance, field, other_field) ==
    FGt(distance, FAdd(field.interaction_radius, other_field.interaction_radius))

\* direction.normalize() * force_magnitude / (distance * distance + 1.0)
PairForce(direction, distance, force_magnitude) ==
    VDivS(VScale(VNormalize(direction), force_magnitude),
          FAdd(FMul(distance, distance), F(SCALE)))

\* field_direction.dot(direction.normalize()) * force_magnitude * 0.1
PairInfluence(field, direction, force_magnitude) ==
    LET field_direction ==
            Vec3(FCos(field.orientation), F(0), FSin(field.orientation))
        alignment == VDot(field_direction, VNormalize(direction))
    IN  FMul(FMul(alignment, force_magnitude), F(INFLUENCE_GAIN))

\* One iteration of the inner loop over field_data.
InnerStep(entity, translation, field, other, acc) ==
    IF IsSelf(entity, other.entity) THEN acc
    ELSE LET direction == VSub(other.pos, translation)
             distance == VLength(direction)
         IN  IF TooFar(distance, field, other.field) THEN acc
             ELSE LET r == calculate_base_interaction(field, other.field)
                  IN  IF ~r.ok THEN acc
                      ELSE [total_force |->
                                VAdd(acc.total_force,
                                     PairForce(direction, distance, r.val)),
                            orientation_influence |->
                                FAdd(acc.orientation_influence,
                                     PairInfluence(field, direction, r.val))]

RECURSIVE InnerLoop(_, _, _, _, _)
InnerLoop(entity, translation, field, field_data, k) ==
    IF k = 0
    THEN [total_force |-> ZERO, orientation_influence |-> F(0)]
    ELSE InnerStep(entity, translation, field, field_data[k],
                   InnerLoop(entity, translation, field, field_data, k - 1))

\* Mutant of EntityAfter: the damping applied without MagneticEffects too.
EntityAfterDamped(entity, body, field_data, delta, effects) ==
    LET field == RotateField(body.field, delta)
    IN  IF ~effects
        THEN Body(body.translation,
                  [field EXCEPT !.orientation =
                      FMul(field.orientation, F(DAMPING))])
        ELSE LET acc == InnerLoop(entity, body.translation, field,
                                  field_data, Len(field_data))
                 movement ==
                     VScale(VScale(acc.total_force, delta), field.strength)
             IN  Body(VAdd(body.translation, movement),
                      [field EXCEPT !.orientation =
                          FMul(FAdd(field.orientation,
                                    FMul(acc.orientation_influence, delta)),
                               F(DAMPING))])

\* The body of the outer loop for one entity: its components afterwards.
EntityAfter(entity, body, field_data, delta, effects) ==
    LET field == RotateField(body.field, delta)
    IN  IF ~effects THEN Body(body.translation, field)
        ELSE LET acc == InnerLoop(entity, body.translation, field,
                                  field_data, Len(field_data))
                 movement ==
                     VScale(VScale(acc.total_force, delta), field.strength)
             IN  Body(VAdd(body.translation, movement),
                      [field EXCEPT !.orientation =
                          FMul(FAdd(field.orientation,
                                    FMul(acc.orientation_influence, delta)),
                               F(DAMPING))])


\* Mutant of ProcessEntity: the other bodies are read from the live world
\* instead of from the data collected before the loop.
ProcessEntityLive(world, field_data, entity, delta, effects) ==
    [world EXCEPT ![entity] =
        EntityAfter(entity, world[entity],
                    FieldData(world, [k \in 1..Len(field_data) |->
                                         field_data[k].entity]),
                    delta, effects)]

\* query.iter_mut() hands out the live components of one entity at a time.
ProcessEntity(world, field_data, entity, delta, effects) ==
    [world EXCEPT ![entity] =
        EntityAfter(entity, world[entity], field_data, delta, effects)]

RECURSIVE OuterLoop(_, _, _, _, _, _)
OuterLoop(world, field_data, order, k, delta, effects) ==
    IF k = 0 THEN world
    ELSE ProcessEntity(OuterLoop(world, field_data, order, k - 1, delta, effects),
                       field_data, order[k], delta, effects)

\* The world after one run of the system over the bodies in `order`.
UpdateResult(world, order, delta, effects) ==
    OuterLoop(world, FieldData(world, order), order, Len(order), delta, effects)

(***************************************************************************)
(* State.                                                                  *)
(***************************************************************************)
VARIABLES
    bodies,            \* the entities with Transform and MagneticField
    magnetic_effects,  \* the MagneticEffects resource is present
    errors,            \* ErrorManager.errors
    frame,             \* number of Update frames run
    pre,               \* history: bodies at the start of the latest frame
    dt,                \* history: time.delta_secs() of the latest frame
    pre_errors,        \* history: errors at the start of the latest frame
    sphere_call,       \* the arguments of a sphere tessellation
    sphere_mesh,       \* the buffers it returned
    config,            \* the HelixConfig resource
    meshes,            \* Assets<Mesh>: the meshes added, a handle is an index
    spawned,           \* the entities spawned through Commands
    calls,             \* history: the handlers called, with their arguments
    node_mesh_calls,   \* history: radius and result of each create_node_mesh
    pre_meshes,        \* history: meshes at the start of the latest call
    pre_spawned,       \* history: spawned at the start of the latest call
    returned,          \* what the latest ErrorManager call returned
    reported,          \* history: the errors reported since the last clear
    last_call,         \* history: the latest ErrorManager call
    ran,               \* the systems run so far in the current Update frame
    field_call,        \* the fields given to the MagneticField methods
    field_result,      \* what the methods returned for them
    emitters,          \* the entities with a ParticleEmitter
    pre_emitters,      \* history: emitters at the start of the latest call
    particle_call,     \* history: the latest call on the emitters
    particle_effects,  \* the entities with ParticleEffect and Transform
    pre_effects,       \* history: particle_effects before the latest call
    effect_results,    \* what update_effect returned for each of them
    elapsed_secs,      \* time.elapsed_secs_f64()
    frame_delta,       \* time.delta_secs()
    phase,             \* where the current Update frame is
    check_pc,          \* where a run of error_check_system is
    fetched,           \* the `errors` local of error_check_system
    pre_check,         \* history: the list when error_check_system began
    logged,            \* history: the errors logged as unhandled
    cleared            \* history: the errors error_check_system removed

magneticVars == <<bodies, magnetic_effects, frame, pre, dt, pre_errors>>
sphereVars == <<sphere_call, sphere_mesh>>
meshVars ==
    <<config, meshes, spawned, calls, node_mesh_calls, pre_meshes, pre_spawned>>
errorVars == <<returned, reported, last_call>>
fieldVars == <<field_call, field_result>>
particleVars == <<emitters, pre_emitters, particle_call>>
effectVars == <<particle_effects, pre_effects, effect_results>>
checkVars ==
    <<elapsed_secs, frame_delta, phase, check_pc, fetched, pre_check, logged,
      cleared>>
restVars == <<fieldVars, particleVars, effectVars, checkVars>>
vars == <<magneticVars, errors, sphereVars, meshVars, errorVars, ran, restVars>>

\* Option: no value (no call made, nothing returned) or one value.
None == <<>>
Some(val) == <<val>>

\* The state of each part of the program while a specification is about
\* another part.
MagneticIdle ==
    /\ bodies = <<>>
    /\ magnetic_effects = FALSE
    /\ frame = 0
    /\ pre = <<>>
    /\ dt = F(0)
    /\ pre_errors = <<>>
SphereIdle == sphere_call = None /\ sphere_mesh = None
MeshIdle ==
    /\ config = None
    /\ meshes = <<>>
    /\ spawned = <<>>
    /\ calls = <<>>
    /\ node_mesh_calls = <<>>
    /\ pre_meshes = <<>>
    /\ pre_spawned = <<>>
ErrorIdle == returned = None /\ reported = <<>> /\ last_call = None
ScheduleIdle == ran = <<>>
FieldIdle == field_call = None /\ field_result = None
ParticleIdle ==
    emitters = <<>> /\ pre_emitters = <<>> /\ particle_call = None
EffectIdle ==
    particle_effects = <<>> /\ pre_effects = <<>> /\ effect_results = <<>>
CheckIdle ==
    /\ elapsed_secs = F(0)
    /\ frame_delta = F(0)
    /\ phase = "idle"
    /\ check_pc = "idle"
    /\ fetched = <<>>
    /\ pre_check = <<>>
    /\ logged = <<>>
    /\ cleared = <<>>
RestIdle == FieldIdle /\ ParticleIdle /\ EffectIdle /\ CheckIdle

\* The bodies of an initial world: a position and a field.  Each field is
\* <<strength, interaction_radius, orientation, polarity>>; the fields of
\* non-positive strength are the ones validate() rejects.
Positions == << <<0, 0, 0>>, <<600, 0, 800>>, <<0, 3000, 0>> >>
Fields ==
    << <<2000, 2000, 5000, "North">>, <<2000, 2000, 5000, "South">>,
       <<3000, 500, 0, "North">>, <<3000, 500, 0, "South">>,
       <<0, 500, 5000, "South">>, <<-1000, 2000, 0, "North">> >>
Deltas == {F(16), F(1000)}

NumKinds == Len(Positions) * Len(Fields)

\* The k-th kind of initial body.
BodyOf(k) ==
    LET p == Positions[(k % Len(Positions)) + 1]
        f == Fields[(k \div Len(Positions)) + 1]
    IN  Body(Vec3(F(p[1]), F(p[2]), F(p[3])),
             MagneticField(F(f[1]), f[4], F(f[3]), F(f[2])))

\* The orders in which a query can iterate over n entities.
Orders(n) == {o \in [1..n -> 1..n] : \A i, j \in 1..n : o[i] = o[j] => i = j}

\* Entity ids mean nothing but identity: initial worlds are enumerated up to
\* a renaming of the entities (kinds in non-decreasing order).
Init ==
    /\ \E n \in 0..MaxBodies :
         \E kind \in [1..n -> 0..(NumKinds - 1)] :
            /\ \A i \in 1..n : \A j \in 1..n : i < j => kind[i] <= kind[j]
            /\ bodies = [e \in 1..n |-> BodyOf(kind[e])]
    /\ magnetic_effects = FALSE
    /\ errors = <<>>
    /\ frame = 0
    /\ pre = bodies
    /\ dt = F(0)
    /\ pre_errors = <<>>
    /\ SphereIdle
    /\ MeshIdle
    /\ ErrorIdle
    /\ ScheduleIdle
    /\ RestIdle

\* Startup: commands.insert_resource(MagneticEffects { .. })
setup_magnetic_effects ==
    /\ frame = 0
    /\ ~magnetic_effects
    /\ magnetic_effects' = TRUE
    /\ UNCHANGED <<bodies, errors, frame, pre, dt, pre_errors>>
    /\ UNCHANGED <<sphereVars, meshVars, errorVars, ran,
                   restVars>>

\* Update: one run of the system, with time.delta_secs() = delta.
update_magnetic_fields ==
    /\ frame < MaxFrames
    /\ \E delta \in Deltas : \E order \in Orders(Len(bodies)) :
          /\ bodies' = UpdateResult(bodies, order, delta, magnetic_effects)
          /\ dt' = delta
    /\ pre' = bodies
    /\ pre_errors' = errors
    /\ frame' = frame + 1
    /\ UNCHANGED <<magnetic_effects, errors>>
    /\ UNCHANGED <<sphereVars, meshVars, errorVars, ran,
                   restVars>>

Next == setup_magnetic_effects \/ update_magnetic_fields

Spec == Init /\ [][Next]_vars

(***************************************************************************)
(* Properties.  They speak of the latest frame: `pre` and `dt` are its     *)
(* inputs, `bodies` its result.                                            *)
(***************************************************************************)
Ticked == frame > 0
Entities == DOMAIN pre
QueryOrder == [i \in 1..Len(pre) |-> i]
PreData == FieldData(pre, QueryOrder)

\* field_data with the entries of the entities in S left out
Without(field_data, S) == SelectSeq(field_data, LAMBDA en : en.entity \notin S)

\* total_force and orientation_influence of entity a over field_data
Accumulated(a, field_data) ==
    InnerLoop(a, pre[a].translation, RotateField(pre[a].field, dt),
              field_data, Len(field_data))

Direction(a, b) == VSub(pre[b].translation, pre[a].translation)
Distance(a, b) == VLength(Direction(a, b))
RadiusSum(a, b) ==
    FAdd(pre[a].field.interaction_radius, pre[b].field.interaction_radius)
Positive(a) == FGt(pre[a].field.strength, F(0))
Finite(body) == ~VIsNaN(body.translation) /\ ~body.field.orientation.nan
Moved(a) == Finite(bodies[a]) /\ bodies[a].translation # pre[a].translation

\* Two bodies of positive strength, apart and within their combined radii.
Interacting(a, b) ==
    /\ a # b /\ Positive(a) /\ Positive(b)
    /\ FGt(Distance(a, b), F(0))
    /\ FLe(Distance(a, b), RadiusSum(a, b))

\* C1: every body's result is computed from the positions collected at the
\* start of the frame, so the world after the frame is the same for every
\* order in which the query hands out the bodies.
C1_SnapshotOrderIndependent ==
    Ticked =>
        \A order \in Orders(Len(pre)) :
            /\ bodies = UpdateResult(pre, order, dt, magnetic_effects)
            /\ \A a \in Entities :
                  bodies[a] = EntityAfter(a, pre[a], FieldData(pre, order),
                                          dt, magnetic_effects)

\* C1 witness: a frame in which two bodies pulled or pushed each other.
C1_Witness ==
    /\ Ticked /\ magnetic_effects /\ Len(pre) = 2
    /\ Interacting(1, 2) /\ Moved(1) /\ Moved(2)

\* C2: for two fields of positive strength calculate_base_interaction is
\* -(strength_A * strength_B) for equal polarities and +(strength_A *
\* strength_B) for different ones; strengths 2 and 3 give -6 and +6.
C2_BaseInteractionSign ==
    /\ \A a, b \in DOMAIN bodies :
          LET fa == bodies[a].field
              fb == bodies[b].field
              product == FMul(fa.strength, fb.strength)
          IN  (FGt(fa.strength, F(0)) /\ FGt(fb.strength, F(0))) =>
                 calculate_base_interaction(fa, fb) =
                    Ok(IF fa.polarity = fb.polarity THEN FNeg(product)
                       ELSE product)
    /\ \A p, q \in Polarity :
          calculate_base_interaction(
              MagneticField(F(2 * SCALE), p, F(0), F(SCALE)),
              MagneticField(F(3 * SCALE), q, F(0), F(SCALE)))
          = Ok(F(IF p = q THEN -6 * SCALE ELSE 6 * SCALE))

\* C2 witness: a frame in which bodies of strength 2 and 3 interacted.
C2_Witness ==
    /\ Ticked /\ magnetic_effects /\ Len(pre) = 2 /\ Interacting(1, 2)
    /\ pre[1].field.strength = F(2 * SCALE)
    /\ pre[2].field.strength = F(3 * SCALE)
    /\ pre[1].field.polarity = pre[2].field.polarity
    /\ Moved(1)

\* C3 (as claimed): after a frame every body's orientation is in [0, TAU).
C3_OrientationInRange ==
    Ticked =>
        \A a \in Entities :
            LET o == bodies[a].field.orientation
            IN  ~o.nan /\ 0 <= o.v /\ o.v < TAU

\* The orientation after the body's own rotation: orientation + strength * dt,
\* less TAU once if that is above TAU.
Spun(a) ==
    LET o == FAdd(pre[a].field.orientation, FMul(pre[a].field.strength, dt))
    IN  IF FGt(o, F(TAU)) THEN FSub(o, F(TAU)) ELSE o

\* The partners of a: the other bodies the range check does not skip, when
\* both strengths are positive.
Partners(a) ==
    {b \in Entities \ {a} :
        /\ Positive(a) /\ Positive(b)
        /\ ~FGt(Distance(a, b), RadiusSum(a, b))}

Magnitude(a, b) ==
    LET product == FMul(pre[a].field.strength, pre[b].field.strength)
    IN  IF pre[a].field.polarity = pre[b].field.polarity THEN FNeg(product)
        ELSE product

\* alignment * magnitude * 0.1, with the body's orientation taken as o
InfluenceTerm(a, b, o) ==
    LET alignment == VDot(Vec3(FCos(o), F(0), FSin(o)),
                          VNormalize(Direction(a, b)))
    IN  FMul(FMul(alignment, Magnitude(a, b)), F(INFLUENCE_GAIN))

RECURSIVE InfluenceSum(_, _, _)
InfluenceSum(a, S, o) ==
    IF S = {} THEN F(0)
    ELSE LET b == CHOOSE x \in S : TRUE
         IN  FAdd(InfluenceTerm(a, b, o), InfluenceSum(a, S \ {b}, o))

\* normalize(direction) * magnitude / (distance^2 + 1)
ForceTerm(a, b) ==
    VDivS(VScale(VNormalize(Direction(a, b)), Magnitude(a, b)),
          FAdd(FMul(Distance(a, b), Distance(a, b)), F(SCALE)))

RECURSIVE ForceSum(_, _)
ForceSum(a, S) ==
    IF S = {} THEN ZERO
    ELSE LET b == CHOOSE x \in S : TRUE
         IN  VAdd(ForceTerm(a, b), ForceSum(a, S \ {b}))

\* An angle wrapped into [0, TAU).
WrapTau(o) == IF o.nan THEN NaN ELSE F(o.v % TAU)

C5_OutOfRangeNoContribution ==
    Ticked =>
        \A a \in Entities :
            LET far == {b \in Entities \ {a} :
                           FGt(Distance(a, b), RadiusSum(a, b))}
            IN  /\ Accumulated(a, PreData) = Accumulated(a, Without(PreData, far))
                /\ bodies[a] = EntityAfter(a, pre[a], Without(PreData, far),
                                           dt, magnetic_effects)
                /\ far = Entities \ {a} =>
                      bodies[a].translation = pre[a].translation

\* C5 witness: a frame with two bodies of positive strength out of range.
C5_Witness ==
    /\ Ticked /\ magnetic_effects /\ Len(pre) = 2
    /\ Positive(1) /\ Positive(2)
    /\ FGt(Distance(1, 2), RadiusSum(1, 2))
    /\ bodies[1].translation = pre[1].translation

\* C6: a pair with a strength <= 0 adds nothing to total_force and
\* orientation_influence, no error is reported, and the other pairs and
\* bodies of the frame are processed as usual.
C6_InvalidPairSkipped ==
    Ticked =>
        /\ errors = pre_errors
        /\ \A a \in Entities :
              LET bad == {b \in Entities \ {a} :
                             \/ FLe(pre[a].field.strength, F(0))
                             \/ FLe(pre[b].field.strength, F(0))}
              IN  /\ Accumulated(a, PreData)
                        = Accumulated(a, Without(PreData, bad))
                  /\ bodies[a] = EntityAfter(a, pre[a], Without(PreData, bad),
                                             dt, magnetic_effects)

\* C6 witness: a frame with a body of negative strength beside a valid one,
\* in range; neither moved and the valid body still rotated.
C6_Witness ==
    /\ Ticked /\ magnetic_effects
    /\ \E a, b \in Entities :
          /\ FGt(F(0), pre[a].field.strength) /\ Positive(b)
          /\ FGt(Distance(a, b), F(0)) /\ FLe(Distance(a, b), RadiusSum(a, b))
          /\ bodies[a].translation = pre[a].translation
          /\ bodies[b].translation = pre[b].translation
          /\ bodies[b].field.orientation # pre[b].field.orientation

\* C7: the entry of field_data with a body's own entity id adds nothing to
\* that body's total_force and orientation_influence.
C7_NoSelfInteraction ==
    Ticked =>
        \A a \in Entities :
            /\ Accumulated(a, PreData) = Accumulated(a, Without(PreData, {a}))
            /\ bodies[a] = EntityAfter(a, pre[a], Without(PreData, {a}),
                                       dt, magnetic_effects)

\* C7 witness: a frame with a single body of positive strength.
C7_Witness ==
    /\ Ticked /\ magnetic_effects /\ Len(pre) = 1 /\ Positive(1)
    /\ Finite(bodies[1])
    /\ bodies[1].translation = pre[1].translation
    /\ bodies[1].field.orientation # pre[1].field.orientation

\* C8 (as claimed): no body's position or orientation is ever NaN.
C8_NoNaN == \A a \in DOMAIN bodies : Finite(bodies[a])

\* C9 (as claimed): after every frame each position is the position at the
\* start plus total_force * dt * strength, total_force being the sum of
\* normalize(direction) * magnitude / (distance^2 + 1) over the partners
\* (stated for the bodies for which that sum is a number).
C9_PositionLaw ==
    Ticked =>
        \A a \in Entities :
            ~VIsNaN(ForceSum(a, Partners(a))) =>
                bodies[a].translation =
                    VAdd(pre[a].translation,
                         VScale(VScale(ForceSum(a, Partners(a)), dt),
                                pre[a].field.strength))

\* C9, restricted to frames with MagneticEffects present (holds).
C9_PositionLawWithEffects == magnetic_effects => C9_PositionLaw

Displacement(a) == VSub(bodies[a].translation, pre[a].translation)

\* C10 (as claimed): two bodies of positive strength, apart and in range:
\* a frame moves each toward the other if the polarities differ and away
\* from the other if they are equal.
C10_AttractRepel ==
    (Ticked /\ Len(pre) = 2 /\ Interacting(1, 2) /\ FGt(dt, F(0))) =>
        \A a \in {1, 2} :
            LET b == 3 - a
                along == VDot(Displacement(a), Direction(a, b))
            IN  IF pre[a].field.polarity = pre[b].field.polarity
                THEN FGt(F(0), along)
                ELSE FGt(along, F(0))

\* C10, restricted to frames with MagneticEffects present (holds).
C10_AttractRepelWithEffects == magnetic_effects => C10_AttractRepel

\* C23: without the MagneticEffects resource a frame applies no force and no
\* damping: every body keeps its position, and the only change to a body is
\* that its orientation is advanced by strength * dt, less TAU once if the
\* result is above TAU.
C23_NoEffectsSpinOnly ==
    (Ticked /\ ~magnetic_effects) =>
        /\ Len(bodies) = Len(pre)
        /\ errors = pre_errors
        /\ \A a \in Entities :
              /\ bodies[a].translation = pre[a].translation
              /\ bodies[a] =
                    Body(pre[a].translation,
                         [pre[a].field EXCEPT !.orientation = Spun(a)])

\* C23 witness: a frame without MagneticEffects over two bodies that would
\* interact, one of them turned past TAU and wrapped.
C23_Witness ==
    /\ Ticked /\ ~magnetic_effects /\ FGt(dt, F(0))
    /\ \E a, b \in Entities :
          /\ Interacting(a, b)
          /\ FGt(FAdd(pre[a].field.orientation,
                      FMul(pre[a].field.strength, dt)), F(TAU))
          /\ bodies[a].field.orientation # pre[a].field.orientation

\* The entry of field_data for body b.
EntryOf(b) == PreData[b]

\* B contributes to A's total_force: no `continue` of the inner loop is
\* taken for the pair.
Contributes(a, b) ==
    LET field == RotateField(pre[a].field, dt)
    IN  /\ ~IsSelf(a, EntryOf(b).entity)
        /\ ~TooFar(Distance(a, b), field, EntryOf(b).field)
        /\ calculate_base_interaction(field, EntryOf(b).field).ok

\* The force vector B adds to A's total_force.
ForceOn(a, b) ==
    PairForce(Direction(a, b), Distance(a, b),
              calculate_base_interaction(RotateField(pre[a].field, dt),
                                         EntryOf(b).field).val)

BaseInteraction(a, b) ==
    calculate_base_interaction(pre[a].field, pre[b].field)

\* The pair's two force vectors are numbers and each the other's negative.
Opposite(a, b) ==
    /\ ~VIsNaN(ForceOn(a, b)) /\ ~VIsNaN(ForceOn(b, a))
    /\ ForceOn(a, b) = VSub(ZERO, ForceOn(b, a))

\* C24 (as claimed): in one frame, for any two bodies A and B, B contributes
\* to A's total_force iff A contributes to B's, the two force vectors of the
\* pair are equal in magnitude and opposite in direction, and
\* calculate_base_interaction(A, B) = calculate_base_interaction(B, A).
C24_Antisymmetric ==
    Ticked =>
        \A a, b \in Entities :
            a # b =>
                /\ Contributes(a, b) <=> Contributes(b, a)
                /\ BaseInteraction(a, b) = BaseInteraction(b, a)
                /\ Contributes(a, b) => Opposite(a, b)

\* C24, for the pairs at different positions (holds).
C24_AntisymmetricApart ==
    Ticked =>
        \A a, b \in Entities :
            (a # b /\ pre[a].translation # pre[b].translation) =>
                /\ Contributes(a, b) <=> Contributes(b, a)
                /\ BaseInteraction(a, b) = BaseInteraction(b, a)
                /\ Contributes(a, b) => Opposite(a, b)

\* A pair at different positions whose forces are not zero.
C24_ApartWitness ==
    /\ Ticked /\ magnetic_effects
    /\ \E a, b \in Entities :
          /\ Interacting(a, b) /\ Contributes(a, b)
          /\ ForceOn(a, b) # ZERO
          /\ Moved(a)

(***************************************************************************)
(* Sphere tessellation as a function of its arguments: the tessellation    *)
(* is applied to every resolution up to MaxSegments and to the resolution  *)
(* create_node_mesh uses.                                                  *)
(***************************************************************************)
NODE_MESH_RESOLUTION == 16

Radii == {F(500), F(1000), F(5000)}
Resolutions == 0..MaxSegments \cup {NODE_MESH_RESOLUTION}

InitSphere ==
    /\ \E radius \in Radii : \E segments \in Resolutions :
         \E rings \in Resolutions :
            /\ (segments = NODE_MESH_RESOLUTION) = (rings = NODE_MESH_RESOLUTION)
            /\ sphere_call = Some([radius |-> radius, segments |-> segments,
                                    rings |-> rings])
    /\ sphere_mesh = None
    /\ MagneticIdle
    /\ MeshIdle
    /\ ErrorIdle
    /\ ScheduleIdle
    /\ RestIdle
    /\ errors = <<>>

\* let vertices = ..; let normals = ..; let indices = ..
tessellate_sphere ==
    /\ sphere_call # None
    /\ sphere_mesh = None
    /\ LET call == sphere_call[1]
           vertices == generate_sphere_vertices(call.radius, call.segments,
                                                call.rings)
           normals == generate_sphere_normals(vertices)
           indices == generate_sphere_indices(call.segments, call.rings)
       IN  sphere_mesh' = Some(Mesh(vertices, normals, indices))
    /\ UNCHANGED <<sphere_call, magneticVars, meshVars, errors, errorVars,
                   ran, restVars>>

NextSphere == tessellate_sphere

SpecSphere == InitSphere /\ [][NextSphere]_vars

Tessellated == sphere_mesh # None
ProperResolution ==
    sphere_call # None /\ sphere_call[1].rings >= 1
                       /\ sphere_call[1].segments >= 1

\* C11: with rings R >= 1 and segments S >= 1 the tessellation returns
\* (R+1)*(S+1) vertices and 6*R*S indices, a multiple of 3; 289 vertices
\* and 1536 indices for R = S = 16.
C11_SphereCounts ==
    (Tessellated /\ ProperResolution) =>
        LET R == sphere_call[1].rings
            S == sphere_call[1].segments
        IN  /\ Len(sphere_mesh[1].vertices) = (R + 1) * (S + 1)
            /\ Len(sphere_mesh[1].indices) = 6 * R * S
            /\ Len(sphere_mesh[1].indices) % 3 = 0
            /\ (R = 16 /\ S = 16) =>
                   /\ Len(sphere_mesh[1].vertices) = 289
                   /\ Len(sphere_mesh[1].indices) = 1536

\* C11 witness: the 16 x 16 sphere has been tessellated.
C11_Witness ==
    /\ Tessellated
    /\ sphere_call[1].rings = 16 /\ sphere_call[1].segments = 16
    /\ Len(sphere_mesh[1].vertices) = 289

\* C12: with R >= 1 and S >= 1 every emitted index is a position of the
\* vertex buffer: 0 <= index < (R+1)*(S+1) = len(vertices).
C12_IndicesInRange ==
    (Tessellated /\ ProperResolution) =>
        \A i \in 1..Len(sphere_mesh[1].indices) :
            /\ 0 <= sphere_mesh[1].indices[i]
            /\ sphere_mesh[1].indices[i]
                   < (sphere_call[1].rings + 1) * (sphere_call[1].segments + 1)
            /\ sphere_mesh[1].indices[i] < Len(sphere_mesh[1].vertices)

\* C12 witness: a tessellation with different ring and segment counts whose
\* last index is the last vertex.
C12_Witness ==
    /\ Tessellated /\ ProperResolution
    /\ sphere_call[1].rings # sphere_call[1].segments
    /\ sphere_mesh[1].indices[Len(sphere_mesh[1].indices)]
          = Len(sphere_mesh[1].vertices) - 1

\* C13: with R >= 1 and S >= 1 every vertex position 0 .. (R+1)*(S+1)-1
\* occurs among the emitted indices.
C13_NoUnreferencedVertex ==
    (Tessellated /\ ProperResolution) =>
        \A v \in 0..((sphere_call[1].rings + 1) * (sphere_call[1].segments + 1) - 1) :
            \E i \in 1..Len(sphere_mesh[1].indices) : sphere_mesh[1].indices[i] = v

\* C13 witness: a tessellation of several rings and segments in which the
\* first and the last vertex are both referenced.
C13_Witness ==
    /\ Tessellated
    /\ sphere_call[1].rings >= 2 /\ sphere_call[1].segments >= 2
    /\ sphere_mesh[1].indices[1] = 0
    /\ \E i \in 1..Len(sphere_mesh[1].indices) :
          sphere_mesh[1].indices[i] = Len(sphere_mesh[1].vertices) - 1

\* C16: a tessellation with zero rings or zero segments returns no vertex
\* with a NaN coordinate.
C16_ZeroResolutionNoNaN ==
    (Tessellated /\ (sphere_call[1].rings = 0 \/ sphere_call[1].segments = 0)) =>
        \A i \in 1..Len(sphere_mesh[1].vertices) :
            \A c \in 1..3 : ~sphere_mesh[1].vertices[i][c].nan

(***************************************************************************)
(* generate_helix and create_node_mesh (systems/generation.rs).            *)
(* Commands are taken as applied when the system returns.                  *)
(***************************************************************************)
\* Error::Component(ComponentError::ValidationFailed(message))
ValidationFailed(message) ==
    [error |-> "Component", component_error |-> "ValidationFailed",
     message |-> message]

\* Err(error) of a Result
ErrOf(error) == [ok |-> FALSE, val |-> error]

InvalidRadiusNegative(radius) == FGt(F(0), radius)

\* if radius <= 0.0
InvalidRadius(radius) == FLe(radius, F(0))

create_node_meshCounting(radius) ==
    IF InvalidRadius(radius)
    THEN ErrOf(ValidationFailed(<<"Mesh radius must be positive, got", radius>>))
    ELSE LET grown == FAdd(radius, F(Len(node_mesh_calls)))
             vertices == generate_sphere_vertices(grown, NODE_MESH_RESOLUTION,
                                                  NODE_MESH_RESOLUTION)
         IN  Ok(Mesh(vertices, generate_sphere_normals(vertices),
                     generate_sphere_indices(NODE_MESH_RESOLUTION,
                                             NODE_MESH_RESOLUTION)))

create_node_mesh(radius) ==
    IF InvalidRadius(radius)
    THEN ErrOf(ValidationFailed(<<"Mesh radius must be positive, got", radius>>))
    ELSE LET vertices == generate_sphere_vertices(radius, NODE_MESH_RESOLUTION,
                                                  NODE_MESH_RESOLUTION)
         IN  Ok(Mesh(vertices, generate_sphere_normals(vertices),
                     generate_sphere_indices(NODE_MESH_RESOLUTION,
                                             NODE_MESH_RESOLUTION)))

\* The bundle generate_helix spawns: a default Node with the mesh, the node
\* material and a transform at the origin.
NodeEntity(mesh_handle) ==
    [components |-> {"Node", "Mesh3d", "MeshMaterial3d", "Transform",
                     "GlobalTransform", "Visibility", "ViewVisibility"},
     mesh |-> mesh_handle, translation |-> ZERO]

HelixSpawnTwice(entities, mesh_handle) ==
    entities \o <<NodeEntity(mesh_handle), NodeEntity(mesh_handle)>>

\* commands.spawn((Node::default(), Mesh3d(mesh_handle), ..))
HelixSpawn(entities, mesh_handle) == Append(entities, NodeEntity(mesh_handle))

\* The radii a HelixConfig or a caller can hold; Default is 5.0.
HelixRadii == {F(-1000), F(0), F(5000)}

InitHelix ==
    /\ config = Some([radius |-> F(5000)])
    /\ meshes = <<>>
    /\ spawned = <<>>
    /\ errors = <<>>
    /\ calls = <<>>
    /\ node_mesh_calls = <<>>
    /\ pre_meshes = <<>>
    /\ pre_spawned = <<>>
    /\ MagneticIdle
    /\ SphereIdle
    /\ ErrorIdle
    /\ ScheduleIdle
    /\ RestIdle

\* The host writes the radius of the HelixConfig resource (a public field).
configure_helix ==
    /\ \E radius \in HelixRadii :
          /\ config # Some([radius |-> radius])
          /\ config' = Some([radius |-> radius])
    /\ UNCHANGED <<meshes, spawned, errors, calls, node_mesh_calls,
                   pre_meshes, pre_spawned, magneticVars, sphereVars,
                   errorVars, ran,
                   restVars>>

\* One run of the system generate_helix.
generate_helix ==
    /\ Len(calls) < MaxCalls
    /\ calls' = Append(calls, [fn |-> "generate_helix", arg |-> config[1].radius])
    /\ pre_meshes' = meshes
    /\ pre_spawned' = spawned
    /\ pre_errors' = errors
    /\ IF FLe(config[1].radius, F(0))
       THEN /\ errors' = Append(errors,
                             ValidationFailed("Helix radius must be positive"))
            /\ UNCHANGED <<meshes, spawned, node_mesh_calls>>
       ELSE LET result == create_node_mesh(config[1].radius)
            IN  /\ node_mesh_calls' = Append(node_mesh_calls,
                        [radius |-> config[1].radius, result |-> result])
                /\ IF result.ok
                   THEN /\ meshes' = Append(meshes, result.val)
                        /\ spawned' = HelixSpawn(spawned, Len(meshes) + 1)
                        /\ UNCHANGED errors
                   ELSE /\ errors' = Append(errors, result.val)
                        /\ UNCHANGED <<meshes, spawned>>
    /\ UNCHANGED <<config, bodies, magnetic_effects, frame, pre, dt, sphereVars,
                   errorVars, ran,
                   restVars>>

\* A direct call of create_node_mesh(radius), as the module's test makes.
test_create_node_mesh ==
    /\ Len(calls) < MaxCalls
    /\ \E radius \in HelixRadii :
          /\ calls' = Append(calls, [fn |-> "create_node_mesh", arg |-> radius])
          /\ node_mesh_calls' = Append(node_mesh_calls,
                 [radius |-> radius, result |-> create_node_mesh(radius)])
    /\ pre_meshes' = meshes
    /\ pre_spawned' = spawned
    /\ pre_errors' = errors
    /\ UNCHANGED <<config, meshes, spawned, errors, bodies, magnetic_effects,
                   frame, pre, dt, sphereVars, errorVars, ran,
                   restVars>>

NextHelix == configure_helix \/ generate_helix \/ test_create_node_mesh

SpecHelix == InitHelix /\ [][NextHelix]_vars

IsValidationFailed(error) ==
    error.error = "Component" /\ error.component_error = "ValidationFailed"

\* C14: create_node_mesh(radius) returns a ValidationFailed error, and no
\* buffers, for every radius <= 0, zero included, and Ok for every
\* radius > 0.
C14_NodeMeshRadiusValidated ==
    \A i \in 1..Len(node_mesh_calls) :
        LET radius == node_mesh_calls[i].radius
            result == node_mesh_calls[i].result
        IN  /\ FLe(radius, F(0)) =>
                  /\ ~result.ok
                  /\ result = ErrOf(ValidationFailed(
                         <<"Mesh radius must be positive, got", radius>>))
            /\ FGt(radius, F(0)) =>
                  /\ result.ok
                  /\ Len(result.val.vertices) = 289
                  /\ Len(result.val.normals) = 289

\* C14 witness: create_node_mesh has been called with radius 0 and with a
\* positive radius.
C14_Witness ==
    /\ \E i \in 1..Len(node_mesh_calls) :
          node_mesh_calls[i].radius = F(0) /\ ~node_mesh_calls[i].result.ok
    /\ \E i \in 1..Len(node_mesh_calls) :
          FGt(node_mesh_calls[i].radius, F(0)) /\ node_mesh_calls[i].result.ok

LatestCall == calls[Len(calls)]
HelixRan == calls # <<>> /\ LatestCall.fn = "generate_helix"

\* C20: a run of generate_helix with config.radius <= 0 reports exactly
\* one ValidationFailed error, spawns no entity and adds no mesh; a run
\* with config.radius > 0 reports no error and spawns exactly one Node.
C20_HelixValidatesRadius ==
    HelixRan =>
        /\ FLe(LatestCall.arg, F(0)) =>
              /\ Len(errors) = Len(pre_errors) + 1
              /\ SubSeq(errors, 1, Len(pre_errors)) = pre_errors
              /\ IsValidationFailed(errors[Len(errors)])
              /\ spawned = pre_spawned
              /\ meshes = pre_meshes
        /\ FGt(LatestCall.arg, F(0)) =>
              /\ errors = pre_errors
              /\ Len(spawned) = Len(pre_spawned) + 1
              /\ SubSeq(spawned, 1, Len(pre_spawned)) = pre_spawned
              /\ "Node" \in spawned[Len(spawned)].components

\* C20 witness: generate_helix has run with a valid radius and then with a
\* radius of zero.
C20_Witness ==
    /\ HelixRan
    /\ LatestCall.arg = F(0)
    /\ Len(errors) = 1 /\ Len(spawned) = 1

(***************************************************************************)
(* Shape (components/shapes.rs) and create_mesh                            *)
(* (systems/mesh_generator.rs).  The engine's Mesh::from(primitive) is     *)
(* kept as the primitive it was given.                                     *)
(***************************************************************************)
Box3d(width, height, depth) ==
    [shape |-> "Box", width |-> width, height |-> height, depth |-> depth]
Sphere3d(radius, sectors, stacks) ==
    [shape |-> "Sphere", radius |-> radius, sectors |-> sectors,
     stacks |-> stacks]
Capsule3d(radius, height, rings, latitudes, longitudes) ==
    [shape |-> "Capsule", radius |-> radius, height |-> height,
     rings |-> rings, latitudes |-> latitudes, longitudes |-> longitudes]
Cylinder3d(radius, height, resolution, segments) ==
    [shape |-> "Cylinder", radius |-> radius, height |-> height,
     resolution |-> resolution, segments |-> segments]
Cone3d(radius, height, resolution) ==
    [shape |-> "Cone", radius |-> radius, height |-> height,
     resolution |-> resolution]
Torus3d(radius, ring_radius, rings, sectors) ==
    [shape |-> "Torus", radius |-> radius, ring_radius |-> ring_radius,
     rings |-> rings, sectors |-> sectors]

ShapeType == {"Alpha", "Beta", "Gamma"}

\* ShapeType::dimensions: (radius, length)
dimensions(shape_type) ==
    CASE shape_type = "Alpha" -> <<F(200), F(600)>>
      [] shape_type = "Beta" -> <<F(300), F(800)>>
      [] shape_type = "Gamma" -> <<F(400), F(1000)>>

\* Shape::from_node_shape; the fields left to Default are 0.
from_node_shape(shape_type) ==
    LET radius == dimensions(shape_type)[1]
        length == dimensions(shape_type)[2]
    IN  CASE shape_type = "Alpha" -> Capsule3d(radius, length, 0, 0, 0)
          [] shape_type = "Beta" -> Cylinder3d(radius, length, 0, 0)
          [] shape_type = "Gamma" -> Cone3d(radius, length, 0)

\* Mesh::from(primitive)
MeshFrom(primitive) == [from |-> primitive]

\* Shape::create_mesh
Shape_create_mesh(self) ==
    CASE self.shape = "Box" ->
           MeshFrom([primitive |-> "Box", x |-> self.width, y |-> self.height,
                     z |-> self.depth])
      [] self.shape = "Sphere" ->
           MeshFrom([primitive |-> "UVSphere", radius |-> self.radius,
                     sectors |-> self.sectors, stacks |-> self.stacks])
      [] self.shape = "Capsule" ->
           MeshFrom([primitive |-> "Capsule", radius |-> self.radius,
                     depth |-> self.height, rings |-> self.rings,
                     latitudes |-> self.latitudes,
                     longitudes |-> self.longitudes, uv_profile |-> "Uniform"])
      [] self.shape = "Cylinder" ->
           MeshFrom([primitive |-> "Cylinder", radius |-> self.radius,
                     height |-> self.height, resolution |-> self.resolution,
                     segments |-> self.segments])
      [] self.shape = "Cone" ->
           MeshFrom([primitive |-> "Cylinder", radius |-> self.radius,
                     height |-> self.height, resolution |-> self.resolution,
                     segments |-> 1])
      [] self.shape = "Torus" ->
           MeshFrom([primitive |-> "Torus", radius |-> self.radius,
                     ring_radius |-> self.ring_radius, rings |-> self.rings,
                     sectors |-> self.sectors])

\* MeshVariant: <<"Box">>, .., <<"Node", shape_type>>
MeshVariant ==
    {<<"Box">>, <<"Sphere">>, <<"Cylinder">>, <<"Cone">>, <<"Capsule">>,
     <<"Torus">>} \cup {<<"Node", shape_type>> : shape_type \in ShapeType}

IsNode(variant) == variant[1] = "Node"

\* MeshVariant::create_shape; the fields left to Default are 0 and 0.0.
create_shape(self, size) ==
    LET half == FDiv(size, F(2 * SCALE))
    IN  CASE self[1] = "Box" -> Box3d(size, size, size)
          [] self[1] = "Sphere" -> Sphere3d(half, 0, 0)
          [] self[1] = "Cylinder" -> Cylinder3d(half, size, 0, 0)
          [] self[1] = "Cone" -> Cone3d(half, size, 0)
          [] self[1] = "Capsule" -> Capsule3d(half, F(0), 0, 0, 0)
          [] self[1] = "Torus" ->
               Torus3d(half, FDiv(size, F(8 * SCALE)), 0, 0)
          [] self[1] = "Node" -> from_node_shape(self[2])

\* The entity create_mesh spawns; the Shape is inserted for node shapes.
MeshEntity(mesh_handle, variant, shape) ==
    [components |-> {"Mesh3d", "MeshMaterial3d", "Transform",
                     "GlobalTransform", "Visibility", "ViewVisibility"}
                    \cup (IF IsNode(variant) THEN {"Shape"} ELSE {}),
     mesh |-> mesh_handle,
     shape |-> IF IsNode(variant) THEN Some(shape) ELSE None]

\* The sizes and the shapes a caller passes.
Sizes == {F(-1000), F(0), F(2000)}
CallerShapes ==
    {Sphere3d(F(1000), 16, 16), Sphere3d(F(-1000), 16, 16),
     Box3d(F(1000), F(0), F(1000)), Torus3d(F(1000), F(250), 8, 8)}

InitMesh ==
    /\ config = None
    /\ meshes = <<>>
    /\ spawned = <<>>
    /\ errors = <<>>
    /\ calls = <<>>
    /\ node_mesh_calls = <<>>
    /\ pre_meshes = <<>>
    /\ pre_spawned = <<>>
    /\ MagneticIdle
    /\ SphereIdle
    /\ ErrorIdle
    /\ ScheduleIdle
    /\ RestIdle

\* The body of create_mesh(variant, size, ..).
CreateMesh(variant, size) ==
    /\ pre_meshes' = meshes
    /\ pre_spawned' = spawned
    /\ pre_errors' = errors
    /\ IF FLe(size, F(0)) /\ ~IsNode(variant)
       THEN /\ errors' = Append(errors, ValidationFailed(
                             <<"Mesh size must be positive, got", size>>))
            /\ UNCHANGED <<meshes, spawned>>
       ELSE LET shape == create_shape(variant, size)
                mesh == Shape_create_mesh(shape)
            IN  /\ meshes' = Append(meshes, mesh)
                /\ spawned' = Append(spawned,
                                 MeshEntity(Len(meshes) + 1, variant, shape))
                /\ UNCHANGED errors
    /\ UNCHANGED <<config, node_mesh_calls, bodies, magnetic_effects, frame,
                   pre, dt, sphereVars, errorVars, ran,
                   restVars>>

\* mesh_generator::create_mesh
create_mesh ==
    /\ Len(calls) < MaxMeshCalls
    /\ \E variant \in MeshVariant : \E size \in Sizes :
          /\ calls' = Append(calls, [fn |-> "create_mesh",
                                     arg |-> <<variant, size>>])
          /\ CreateMesh(variant, size)

\* mesh_generator::create_node_mesh: create_mesh(Node(shape_type), 0.0, ..)
mesh_generator_create_node_mesh ==
    /\ Len(calls) < MaxMeshCalls
    /\ \E shape_type \in ShapeType :
          /\ calls' = Append(calls, [fn |-> "create_mesh",
                                     arg |-> <<<<"Node", shape_type>>, F(0)>>])
          /\ CreateMesh(<<"Node", shape_type>>, F(0))

\* A direct call of the public method Shape::create_mesh.
call_Shape_create_mesh ==
    /\ Len(calls) < MaxMeshCalls
    /\ \E shape \in CallerShapes :
          calls' = Append(calls, [fn |-> "Shape::create_mesh", arg |-> shape,
                                  result |-> Shape_create_mesh(shape)])
    /\ pre_meshes' = meshes
    /\ pre_spawned' = spawned
    /\ pre_errors' = errors
    /\ UNCHANGED <<config, meshes, spawned, errors, node_mesh_calls, bodies,
                   magnetic_effects, frame, pre, dt, sphereVars, errorVars,
                   ran, restVars>>

NextMesh ==
    create_mesh \/ mesh_generator_create_node_mesh \/ call_Shape_create_mesh

SpecMesh == InitMesh /\ [][NextMesh]_vars

\* radius, height, width, depth, ring_radius of a shape
Dimensions(shape) ==
    CASE shape.shape = "Box" -> {shape.width, shape.height, shape.depth}
      [] shape.shape = "Sphere" -> {shape.radius}
      [] shape.shape = "Torus" -> {shape.radius, shape.ring_radius}
      [] OTHER -> {shape.radius, shape.height}
NonPositiveDimension(shape) == \E d \in Dimensions(shape) : ~FGt(d, F(0))

Rejected ==
    /\ meshes = pre_meshes
    /\ spawned = pre_spawned
    /\ Len(errors) = Len(pre_errors) + 1
    /\ IsValidationFailed(errors[Len(errors)])

\* C15: a shape with a non-positive dimension is rejected on every path:
\* create_mesh (create_node_mesh included) reports a validation error,
\* adds no mesh and spawns no entity, and Shape::create_mesh returns no
\* mesh.
C15_NonPositiveDimensionRejected ==
    calls # <<>> =>
        /\ (/\ LatestCall.fn = "create_mesh"
            /\ NonPositiveDimension(create_shape(LatestCall.arg[1],
                                                 LatestCall.arg[2])))
               => Rejected
        /\ (/\ LatestCall.fn = "Shape::create_mesh"
            /\ NonPositiveDimension(LatestCall.arg))
               => "from" \notin DOMAIN LatestCall.result

\* What create_mesh does reject: a size <= 0 for a variant other than Node.
C15_NonPositiveSizeRejected ==
    (/\ calls # <<>>
     /\ LatestCall.fn = "create_mesh"
     /\ FLe(LatestCall.arg[2], F(0))
     /\ ~IsNode(LatestCall.arg[1])) => Rejected

(***************************************************************************)
(* ErrorManager (err.rs).  Each method holds the lock of the list for its  *)
(* whole access, so a call is one step.                                    *)
(***************************************************************************)
\* Error::Custom(message)
Custom(message) == [error |-> "Custom", message |-> message]

PushFront(list, error) == <<error>> \o list

\* Vec::push
Push(list, error) == Append(list, error)

\* The errors the systems report.
Errors ==
    {ValidationFailed("Helix radius must be positive"), Custom("recovered")}

\* The elapsed time and the delta the error check can see, in 1/SCALE s.
Elapsed == {F(0), F(500), F(1008)}

InitErrors ==
    /\ errors = <<>>
    /\ returned = None
    /\ reported = <<>>
    /\ last_call = None
    /\ pre_errors = <<>>
    /\ bodies = <<>>
    /\ magnetic_effects = FALSE
    /\ frame = 0
    /\ pre = <<>>
    /\ dt = F(0)
    /\ SphereIdle
    /\ MeshIdle
    /\ ScheduleIdle
    /\ RestIdle

ErrorsFrame ==
    UNCHANGED <<bodies, magnetic_effects, frame, pre, dt, sphereVars, meshVars,
                ran, restVars>>

\* ErrorManager::report_error
report_error ==
    /\ Len(errors) < MaxErrors
    /\ \E error \in Errors :
          /\ errors' = Push(errors, error)
          /\ reported' = Append(reported, error)
          /\ last_call' = Some([fn |-> "report_error", arg |-> error])
    /\ returned' = None
    /\ pre_errors' = errors
    /\ ErrorsFrame

\* ErrorManager::report_with_recovery: report_error, then a log line
report_with_recovery ==
    /\ Len(errors) < MaxErrors
    /\ \E error \in Errors :
          /\ errors' = Push(errors, error)
          /\ reported' = Append(reported, error)
          /\ last_call' = Some([fn |-> "report_with_recovery", arg |-> error])
    /\ returned' = None
    /\ pre_errors' = errors
    /\ ErrorsFrame

\* ErrorManager::has_errors
has_errors ==
    /\ returned' = Some(errors # <<>>)
    /\ last_call' = Some([fn |-> "has_errors"])
    /\ pre_errors' = errors
    /\ UNCHANGED <<errors, reported>>
    /\ ErrorsFrame

\* ErrorManager::clear
clear ==
    /\ errors' = <<>>
    /\ reported' = <<>>
    /\ returned' = None
    /\ last_call' = Some([fn |-> "clear"])
    /\ pre_errors' = errors
    /\ ErrorsFrame

\* ErrorManager::get_errors
get_errors ==
    /\ returned' = Some(errors)
    /\ last_call' = Some([fn |-> "get_errors"])
    /\ pre_errors' = errors
    /\ UNCHANGED <<errors, reported>>
    /\ ErrorsFrame

\* The system error_check_system: once a second it logs the errors and
\* clears the list when there are any.
error_check_system ==
    /\ \E elapsed \in Elapsed : \E delta \in Deltas :
          IF elapsed.v % SCALE < delta.v /\ errors # <<>>
          THEN errors' = <<>> /\ reported' = <<>>
          ELSE UNCHANGED <<errors, reported>>
    /\ returned' = None
    /\ last_call' = Some([fn |-> "error_check_system"])
    /\ pre_errors' = errors
    /\ ErrorsFrame

NextErrors ==
    \/ report_error
    \/ report_with_recovery
    \/ has_errors
    \/ clear
    \/ get_errors
    \/ error_check_system

SpecErrors == InitErrors /\ [][NextErrors]_vars

LatestIs(fn) == last_call # None /\ last_call[1].fn = fn

\* C18: the list holds exactly the errors reported since the last clear, in
\* report order; get_errors returns that list and removes nothing,
\* has_errors is true iff it is non-empty, clear leaves it empty.
C18_ErrorListAppendOnly ==
    /\ errors = reported
    /\ LatestIs("get_errors") =>
           returned = Some(reported) /\ errors = pre_errors
    /\ LatestIs("has_errors") =>
           returned = Some(reported # <<>>) /\ errors = pre_errors
    /\ LatestIs("clear") => errors = <<>>
    /\ (LatestIs("report_error") \/ LatestIs("report_with_recovery")) =>
           errors = Append(pre_errors, last_call[1].arg)

\* C18 witness: get_errors has returned two different errors, the second
\* of them reported with a recovery message.
C18_Witness ==
    /\ LatestIs("get_errors")
    /\ Len(returned[1]) = 2
    /\ returned[1][1] # returned[1][2]
    /\ errors = returned[1]

(***************************************************************************)
(* The Update schedule (lib.rs): the executor runs a system once every     *)
(* system of a set ordered before its set has run.                         *)
(***************************************************************************)
HyvoGridSet == {"Setup", "Physics", "Rendering", "ErrorHandling"}

BeforeWithoutPhysics ==
    {<<"Setup", "Physics">>, <<"Rendering", "ErrorHandling">>}

\* HyvoGridSet::Setup.before(Physics), Physics.before(Rendering),
\* Rendering.before(ErrorHandling)
Before ==
    {<<"Setup", "Physics">>, <<"Physics", "Rendering">>,
     <<"Rendering", "ErrorHandling">>}

\* add_systems(Update, system.in_set(set))
SetOf ==
    [generate_helix |-> "Physics", check_intersections |-> "Physics",
     update_magnetic_fields |-> "Physics", update_node_visuals |-> "Rendering",
     update_particles |-> "Rendering", error_check_system |-> "ErrorHandling"]

Systems == DOMAIN SetOf

\* Set a is ordered before set b, directly or through other sets.
Precedes(a, b) ==
    \/ <<a, b>> \in Before
    \/ \E c \in HyvoGridSet :
          /\ <<a, c>> \in Before
          /\ \/ <<c, b>> \in Before
             \/ \E d \in HyvoGridSet : <<c, d>> \in Before /\ <<d, b>> \in Before

HasRun(system) == \E i \in 1..Len(ran) : ran[i] = system

InitSchedule ==
    /\ ran = <<>>
    /\ frame = 0
    /\ bodies = <<>>
    /\ magnetic_effects = FALSE
    /\ pre = <<>>
    /\ dt = F(0)
    /\ pre_errors = <<>>
    /\ errors = <<>>
    /\ SphereIdle
    /\ MeshIdle
    /\ ErrorIdle
    /\ RestIdle

\* The executor runs one system of the frame.
run_system ==
    /\ frame < MaxUpdates
    /\ \E system \in Systems :
          /\ ~HasRun(system)
          /\ \A other \in Systems :
                Precedes(SetOf[other], SetOf[system]) => HasRun(other)
          /\ ran' = Append(ran, system)
    /\ UNCHANGED <<bodies, magnetic_effects, frame, pre, dt, pre_errors, errors,
                   sphereVars, meshVars, errorVars, restVars>>

\* Every system has run: the Update schedule of the frame is over.
end_update ==
    /\ \A system \in Systems : HasRun(system)
    /\ ran' = <<>>
    /\ frame' = frame + 1
    /\ UNCHANGED <<bodies, magnetic_effects, pre, dt, pre_errors, errors,
                   sphereVars, meshVars, errorVars, restVars>>

NextSchedule == run_system \/ end_update

SpecSchedule == InitSchedule /\ [][NextSchedule]_vars

Position(system) == CHOOSE i \in 1..Len(ran) : ran[i] = system

\* C19: in every Update frame error_check_system runs after generate_helix,
\* check_intersections, update_magnetic_fields, update_node_visuals and
\* update_particles, and no Rendering system runs before a Physics system.
C19_SetOrder ==
    /\ HasRun("error_check_system") =>
           \A system \in Systems \ {"error_check_system"} :
               /\ HasRun(system)
               /\ Position(system) < Position("error_check_system")
    /\ \A r \in Systems : \A p \in Systems :
           (/\ SetOf[r] = "Rendering" /\ SetOf[p] = "Physics" /\ HasRun(r))
               => (HasRun(p) /\ Position(p) < Position(r))
    /\ \A i, j \in 1..Len(ran) : ran[i] = ran[j] => i = j

\* C19 witness: a second frame in which the whole schedule has run, with
\* update_magnetic_fields before generate_helix.
C19_Witness ==
    /\ frame = 1
    /\ Len(ran) = 6
    /\ ran[6] = "error_check_system"
    /\ Position("update_magnetic_fields") < Position("generate_helix")

(***************************************************************************)
(* MagneticField::validate and the operations (components/                 *)
(* magnetic_field.rs).  The methods are pure: SpecField draws a pair of    *)
(* fields and each action calls one method on it.                          *)
(***************************************************************************)
InvalidState(message) ==
    [error |-> "Component", component_error |-> "InvalidState",
     message |-> message]

\* The value of Ok(()).
Unit == <<>>

MagneticField_validate(self) ==
    IF FLe(self.strength, F(0))
    THEN ErrOf(ValidationFailed("Field strength must be positive"))
    ELSE IF FLe(self.interaction_radius, F(0))
    THEN ErrOf(ValidationFailed("Interaction radius must be positive"))
    ELSE IF FGt(F(0), self.particle_emission_rate)
    THEN ErrOf(ValidationFailed("Particle emission rate cannot be negative"))
    ELSE Ok(Unit)

get_emission_rate(self) ==
    IF FLe(self.particle_emission_rate, F(0))
    THEN ErrOf(InvalidState("Particle emission rate must be positive"))
    ELSE IF FLe(self.strength, F(0))
    THEN ErrOf(InvalidState(
             "Field strength must be positive for particle emission"))
    ELSE Ok(FMul(self.particle_emission_rate, self.strength))

\* The fields a caller can build: every component is public.
FieldStrengths == {F(-1000), F(0), F(2000)}
FieldRadii == {F(0), F(2000)}
EmissionRates == {F(-1000), F(0), F(10000)}
FieldsOf ==
    {[MagneticField(strength, polarity, F(0), radius)
        EXCEPT !.particle_emission_rate = rate] :
        strength \in FieldStrengths, polarity \in Polarity,
        radius \in FieldRadii, rate \in EmissionRates}

InitField ==
    /\ \E self \in FieldsOf, other \in FieldsOf :
          field_call = Some([self |-> self, other |-> other])
    /\ field_result = Some([validate |-> None, get_emission_rate |-> None,
                            calculate_base_interaction |-> None])
    /\ errors = <<>>
    /\ MagneticIdle
    /\ SphereIdle
    /\ MeshIdle
    /\ ErrorIdle
    /\ ScheduleIdle
    /\ ParticleIdle
    /\ EffectIdle
    /\ CheckIdle

FieldFrame ==
    UNCHANGED <<field_call, magneticVars, errors, sphereVars, meshVars,
                errorVars, ran, particleVars, effectVars, checkVars>>

call_validate ==
    /\ field_result[1].validate = None
    /\ field_result' =
         Some([field_result[1] EXCEPT !.validate =
                  Some(MagneticField_validate(field_call[1].self))])
    /\ FieldFrame

call_get_emission_rate ==
    /\ field_result[1].get_emission_rate = None
    /\ field_result' =
         Some([field_result[1] EXCEPT !.get_emission_rate =
                  Some(get_emission_rate(field_call[1].self))])
    /\ FieldFrame

call_calculate_base_interaction ==
    /\ field_result[1].calculate_base_interaction = None
    /\ field_result' =
         Some([field_result[1] EXCEPT !.calculate_base_interaction =
                  Some(calculate_base_interaction(field_call[1].self,
                                                  field_call[1].other))])
    /\ FieldFrame

NextField ==
    \/ call_validate
    \/ call_get_emission_rate
    \/ call_calculate_base_interaction

SpecField == InitField /\ [][NextField]_vars

\* The three methods have returned for the drawn pair.
FieldReturned ==
    /\ field_result # None
    /\ field_result[1].validate # None
    /\ field_result[1].get_emission_rate # None
    /\ field_result[1].calculate_base_interaction # None

\* validate() accepted the field and accepts the other one.
BothAccepted ==
    /\ field_result[1].validate[1].ok
    /\ MagneticField_validate(field_call[1].other).ok

\* C29 (as claimed): for every field validate() accepts, get_emission_rate()
\* succeeds, and so does calculate_base_interaction with any other field
\* validate() accepts.
C29_ValidateAgrees ==
    (FieldReturned /\ BothAccepted) =>
        /\ field_result[1].get_emission_rate[1].ok
        /\ field_result[1].calculate_base_interaction[1].ok

\* C29, the part that holds: an accepted pair has a base interaction, and an
\* accepted field whose emission rate is above zero has an emission rate.
C29_AcceptedInteracts ==
    (FieldReturned /\ BothAccepted) =>
        /\ field_result[1].calculate_base_interaction[1].ok
        /\ FGt(field_call[1].self.particle_emission_rate, F(0)) =>
              field_result[1].get_emission_rate[1] =
                 Ok(FMul(field_call[1].self.particle_emission_rate,
                         field_call[1].self.strength))

C29_AcceptedWitness ==
    /\ FieldReturned /\ BothAccepted
    /\ field_result[1].get_emission_rate[1].ok
    /\ field_result[1].calculate_base_interaction[1].val = F(-4000)

(***************************************************************************)
(* ParticleEmitter (components/particle_emitter.rs).  SpecEmitter draws    *)
(* one emitter and calls try_update on it again and again; `emitters`      *)
(* holds that emitter.                                                     *)
(***************************************************************************)
Sphere(radius) == [shape |-> "Sphere", radius |-> radius]

ParticleEmitter(active, lifetime, elapsed, shape, polarity) ==
    [active |-> active, lifetime |-> lifetime, elapsed |-> elapsed,
     shape |-> shape, polarity |-> polarity]

ParticleEmitter_default ==
    ParticleEmitter(TRUE, F(5 * SCALE), F(0), Sphere(F(SCALE)), TRUE)

ParticleEmitter_new(shape, lifetime, polarity) ==
    ParticleEmitter(TRUE, lifetime, F(0), shape, polarity)

is_active(self) == self.active


\* Mutant of Expired: `>` for `>=`.
ExpiredStrict(self) == FGt(self.elapsed, self.lifetime)

\* if self.elapsed >= self.lifetime
Expired(self) == FLe(self.lifetime, self.elapsed)

\* The emitter after the call, and what the call returned.
try_update(self, delta) ==
    IF ~self.active THEN [emitter |-> self, result |-> Ok(Unit)]
    ELSE LET added == [self EXCEPT !.elapsed = FAdd(self.elapsed, delta)]
         IN  [emitter |-> IF Expired(added)
                          THEN [added EXCEPT !.active = FALSE]
                          ELSE added,
              result |-> Ok(Unit)]

is_complete(self) == ~self.active \/ FLe(self.lifetime, self.elapsed)

ParticleEmitter_validate(self) ==
    IF FLe(self.lifetime, F(0))
    THEN ErrOf(Custom("Particle emitter lifetime must be positive"))
    ELSE Ok(Unit)

get_polarity(self) == self.polarity

\* The lifetimes a caller gives, and the frame times, in 1/SCALE s.
Lifetimes == {F(-1000), F(0), F(2000), F(5000)}
ParticleDeltas == {F(0), F(2000), F(3000)}

\* The emitters a caller can build: every component is public.
ParticleEmitters ==
    {ParticleEmitter(active, lifetime, elapsed, Sphere(F(SCALE)), polarity) :
        active \in BOOLEAN, lifetime \in Lifetimes,
        elapsed \in {F(0), F(2000)}, polarity \in BOOLEAN}

InitEmitter ==
    /\ \E self \in ParticleEmitters : emitters = <<self>>
    /\ pre_emitters = emitters
    /\ particle_call = None
    /\ errors = <<>>
    /\ MagneticIdle
    /\ SphereIdle
    /\ MeshIdle
    /\ ErrorIdle
    /\ ScheduleIdle
    /\ FieldIdle
    /\ EffectIdle
    /\ CheckIdle

ParticlesFrame ==
    UNCHANGED <<magneticVars, sphereVars, meshVars, errorVars, ran,
                fieldVars, effectVars, checkVars>>

call_try_update ==
    /\ \E delta \in ParticleDeltas :
          LET r == try_update(emitters[1], delta)
          IN  /\ emitters' = <<r.emitter>>
              /\ particle_call' =
                    Some([fn |-> "try_update", dt |-> delta,
                          result |-> r.result])
    /\ pre_emitters' = emitters
    /\ UNCHANGED errors
    /\ ParticlesFrame

NextEmitter == call_try_update

SpecEmitter == InitEmitter /\ [][NextEmitter]_vars

\* C25: try_update leaves an inactive emitter as it is; it adds dt to the
\* elapsed time of an active one, which becomes inactive exactly when the
\* elapsed time is then at least the lifetime.  So after any call an active
\* emitter has elapsed < lifetime, and is_complete() is true iff active is
\* false.
C25_EmitterLifecycle ==
    particle_call # None =>
        LET before == pre_emitters[1]
            after == emitters[1]
        IN  /\ particle_call[1].result = Ok(Unit)
            /\ ~before.active => after = before
            /\ before.active =>
                 /\ after.elapsed = FAdd(before.elapsed, particle_call[1].dt)
                 /\ after.active <=> ~FLe(after.lifetime, after.elapsed)
                 /\ after = [before EXCEPT !.elapsed = after.elapsed,
                                           !.active = after.active]
            /\ after.active => FGt(after.lifetime, after.elapsed)
            /\ is_complete(after) <=> ~after.active

\* C25 witness: a call that made an active emitter inactive, its elapsed
\* time then being exactly its lifetime.
C25_Witness ==
    /\ particle_call # None
    /\ pre_emitters[1].active /\ ~emitters[1].active
    /\ FGt(particle_call[1].dt, F(0))
    /\ FGt(emitters[1].lifetime, pre_emitters[1].elapsed)
    /\ emitters[1].elapsed = emitters[1].lifetime

(***************************************************************************)
(* spawn_particle_emitter and update_particles (systems/particles.rs).     *)
(* In SpecParticles `emitters` is the world: entity id -> the entity's     *)
(* effect handle, position, ParticleEmitter, and whether a despawn         *)
(* command has removed it.                                                 *)
(***************************************************************************)
\* The MagneticEffects resource of systems/particles.rs: three handles.
EffectHandles ==
    [north |-> "north", south |-> "south", fallback |-> "fallback"]

ParticleEntity(effect, position, emitter) ==
    [effect |-> effect, position |-> position, emitter |-> emitter,
     despawned |-> FALSE]


\* Mutant of EffectHandle: the two arms exchanged.
EffectHandleSwapped(handles, polarity) ==
    IF polarity THEN handles.south ELSE handles.north

\* match config.get_polarity() { true => north, false => south }
EffectHandle(handles, polarity) ==
    IF polarity THEN handles.north ELSE handles.south

\* What one call spawns, reports and logs.
Spawned(handles, position, emitter_config) ==
    LET v == ParticleEmitter_validate(emitter_config)
    IN  IF ~v.ok
        THEN [entity |-> ParticleEntity(handles.fallback, position,
                                        ParticleEmitter_default),
              error |-> Some(v.val),
              recovery |-> Some("Using fallback particle configuration")]
        ELSE [entity |->
                  ParticleEntity(
                      EffectHandle(handles, get_polarity(emitter_config)),
                      position, emitter_config),
              error |-> None,
              recovery |-> None]


\* Mutant of SkipInactive: the guard left out.
SkipInactiveNever(emitter) == FALSE

\* if !emitter.is_active() { continue; }
SkipInactive(emitter) == ~is_active(emitter)

\* The body of the loop of update_particles for one entity of the query:
\* the entity afterwards and the error reported, if any.
UpdateParticle(entity, delta) ==
    IF entity.despawned \/ SkipInactive(entity.emitter)
    THEN [entity |-> entity, error |-> None]
    ELSE LET r == try_update(entity.emitter, delta)
         IN  IF ~r.result.ok
             THEN [entity |-> [entity EXCEPT !.emitter = r.emitter],
                   error |-> Some(r.result.val)]
             ELSE [entity |-> [entity EXCEPT !.emitter = r.emitter,
                                             !.despawned =
                                                 is_complete(r.emitter)],
                   error |-> None]

\* The errors the loop reports over the first k entities, in order.
RECURSIVE ParticleErrors(_, _, _)
ParticleErrors(world, delta, k) ==
    IF k = 0 THEN <<>>
    ELSE ParticleErrors(world, delta, k - 1)
            \o UpdateParticle(world[k], delta).error

\* The configs and positions the callers pass.
EmitterConfigs ==
    {ParticleEmitter(active, lifetime, F(0), Sphere(F(SCALE)), polarity) :
        active \in BOOLEAN, lifetime \in Lifetimes, polarity \in BOOLEAN}
SpawnPositions == {Vec3(F(SCALE), F(0), F(2 * SCALE))}

InitParticles ==
    /\ emitters = <<>>
    /\ pre_emitters = <<>>
    /\ particle_call = None
    /\ errors = <<>>
    /\ MagneticIdle
    /\ SphereIdle
    /\ MeshIdle
    /\ ErrorIdle
    /\ ScheduleIdle
    /\ FieldIdle
    /\ EffectIdle
    /\ CheckIdle

spawn_particle_emitter ==
    /\ Len(emitters) < MaxEmitters
    /\ \E position \in SpawnPositions, emitter_config \in EmitterConfigs :
          LET s == Spawned(EffectHandles, position, emitter_config)
          IN  /\ emitters' = Append(emitters, s.entity)
              /\ errors' = errors \o s.error
              /\ particle_call' =
                    Some([fn |-> "spawn_particle_emitter",
                          position |-> position, config |-> emitter_config,
                          errors |-> errors, recovery |-> s.recovery])
    /\ pre_emitters' = emitters
    /\ ParticlesFrame

update_particles ==
    /\ \E delta \in ParticleDeltas :
          /\ emitters' =
                [e \in DOMAIN emitters |->
                    UpdateParticle(emitters[e], delta).entity]
          /\ errors' = errors \o ParticleErrors(emitters, delta, Len(emitters))
          /\ particle_call' =
                Some([fn |-> "update_particles", dt |-> delta,
                      errors |-> errors])
    /\ pre_emitters' = emitters
    /\ ParticlesFrame

NextParticles ==
    \/ spawn_particle_emitter
    \/ update_particles

SpecParticles == InitParticles /\ [][NextParticles]_vars

LatestParticleCall(fn) == particle_call # None /\ particle_call[1].fn = fn

\* C26: update_particles despawns an emitter's entity in the frame in which
\* its elapsed time first reaches its lifetime and in no earlier frame; an
\* emitter that is inactive at the start of a frame is neither updated nor
\* despawned in it.
C26_DespawnWhenLifetimeReached ==
    LatestParticleCall("update_particles") =>
        /\ Len(emitters) = Len(pre_emitters)
        /\ errors = particle_call[1].errors
        /\ \A e \in DOMAIN pre_emitters :
              LET before == pre_emitters[e]
                  after == emitters[e]
                  lifetime == before.emitter.lifetime
              IN  IF before.despawned \/ ~before.emitter.active
                  THEN after = before
                  ELSE /\ after.emitter.elapsed =
                             FAdd(before.emitter.elapsed, particle_call[1].dt)
                       /\ FGt(lifetime, before.emitter.elapsed)
                       /\ after.despawned <=>
                             FLe(lifetime, after.emitter.elapsed)

\* C26 witness: a frame that despawned an entity an earlier frame had
\* updated and kept, while an inactive emitter's entity stayed as it was.
C26_Witness ==
    /\ LatestParticleCall("update_particles")
    /\ \E e, i \in DOMAIN pre_emitters :
          /\ ~pre_emitters[e].despawned /\ emitters[e].despawned
          /\ FGt(pre_emitters[e].emitter.elapsed, F(0))
          /\ ~pre_emitters[i].emitter.active /\ ~emitters[i].despawned

\* C27: spawn_particle_emitter always spawns exactly one entity.  For a
\* config with lifetime <= 0 it reports exactly one error, with recovery,
\* and spawns the fallback effect with ParticleEmitter::default(); for a
\* valid config it reports no error and spawns the config with the north
\* effect when polarity is true and the south effect when it is false.
C27_SpawnOrFallback ==
    LatestParticleCall("spawn_particle_emitter") =>
        LET call == particle_call[1]
            n == Len(emitters)
        IN  /\ n = Len(pre_emitters) + 1
            /\ \A e \in DOMAIN pre_emitters : emitters[e] = pre_emitters[e]
            /\ ~emitters[n].despawned
            /\ emitters[n].position = call.position
            /\ IF FLe(call.config.lifetime, F(0))
               THEN /\ Len(errors) = Len(call.errors) + 1
                    /\ call.recovery # None
                    /\ emitters[n].effect = "fallback"
                    /\ emitters[n].emitter = ParticleEmitter_default
               ELSE /\ errors = call.errors
                    /\ call.recovery = None
                    /\ emitters[n].emitter = call.config
                    /\ emitters[n].effect =
                          IF call.config.polarity THEN "north" ELSE "south"

\* C27 witness: a valid south config spawned, then a config of lifetime 0
\* replaced by the fallback and reported.
C27_Witness ==
    /\ LatestParticleCall("spawn_particle_emitter")
    /\ Len(emitters) = 2
    /\ emitters[1].effect = "south"
    /\ emitters[2].effect = "fallback"
    /\ particle_call[1].config.lifetime = F(0)
    /\ errors = <<Custom("Particle emitter lifetime must be positive")>>

(***************************************************************************)
(* update_particle_effects and update_effect (systems/particles.rs).       *)
(* `particle_effects` is the query: entity id -> ParticleEffect and        *)
(* Transform.  `effect_results` holds, for each frame run, what            *)
(* update_effect returned for each entity.                                 *)
(***************************************************************************)
StateError(message) ==
    [error |-> "Component", component_error |-> "StateError",
     message |-> message]

Quat(x, y, z, w) == [x |-> x, y |-> y, z |-> z, w |-> w]
IDENTITY == Quat(F(0), F(0), F(0), F(SCALE))

\* Quat::from_rotation_y: (0, sin(angle / 2), 0, cos(angle / 2))
from_rotation_y(angle) ==
    LET half == FMul(angle, F(SCALE \div 2))
    IN  Quat(F(0), FSin(half), F(0), FCos(half))

\* Quat * Quat
QMul(a, b) ==
    Quat(FSub(FAdd(FAdd(FMul(a.w, b.x), FMul(a.x, b.w)), FMul(a.y, b.z)),
              FMul(a.z, b.y)),
         FAdd(FAdd(FSub(FMul(a.w, b.y), FMul(a.x, b.z)), FMul(a.y, b.w)),
              FMul(a.z, b.x)),
         FAdd(FSub(FAdd(FMul(a.w, b.z), FMul(a.x, b.y)), FMul(a.y, b.x)),
              FMul(a.z, b.w)),
         FSub(FSub(FSub(FMul(a.w, b.w), FMul(a.x, b.x)), FMul(a.y, b.y)),
              FMul(a.z, b.z)))

\* is_finite of a Vec3 and of a Quat (the model has no infinity)
VIsFinite(a) == ~VIsNaN(a)
QIsFinite(q) == ~(q.x.nan \/ q.y.nan \/ q.z.nan \/ q.w.nan)

Transform(translation, rotation, scale) ==
    [translation |-> translation, rotation |-> rotation, scale |-> scale]

\* Transform::rotate: self.rotation = rotation * self.rotation
rotate(transform, rotation) ==
    [transform EXCEPT !.rotation = QMul(rotation, transform.rotation)]

ParticleEffect(lifetime, scale_rate, rotation_rate) ==
    [lifetime |-> lifetime, scale_rate |-> scale_rate,
     rotation_rate |-> rotation_rate]

\* The effect and the transform after the call, and what the call returned.
update_effect(effect, transform, delta) ==
    LET aged == [effect EXCEPT !.lifetime = FSub(effect.lifetime, delta)]
        grow == FMul(aged.scale_rate, delta)
        new_scale == VAdd(transform.scale, Vec3(grow, grow, grow))
        scaled == [transform EXCEPT !.scale = new_scale]
        rotation == from_rotation_y(FMul(aged.rotation_rate, delta))
    IN  IF FLe(aged.lifetime, F(0))
        THEN [effect |-> aged, transform |-> transform,
              result |-> ErrOf(StateError("Particle effect lifetime expired"))]
        ELSE IF ~VIsFinite(new_scale)
        THEN [effect |-> aged, transform |-> transform,
              result |-> ErrOf(ValidationFailed("Invalid scale value"))]
        ELSE IF ~QIsFinite(rotation)
        THEN [effect |-> aged, transform |-> scaled,
              result |-> ErrOf(ValidationFailed("Invalid rotation value"))]
        ELSE [effect |-> aged, transform |-> rotate(scaled, rotation),
              result |-> Ok(FGt(aged.lifetime, F(0)) /\ ~aged.lifetime.nan)]

\* The errors the loop reports over the first k entities, in order.
RECURSIVE EffectErrors(_, _, _)
EffectErrors(world, delta, k) ==
    IF k = 0 THEN <<>>
    ELSE LET r == update_effect(world[k].effect, world[k].transform, delta)
         IN  EffectErrors(world, delta, k - 1)
                \o (IF r.result.ok THEN <<>> ELSE <<r.result.val>>)

\* The effects in the world: the default lifetime or a short one, the rates
\* the default ones or not numbers (every component is public).
EffectKinds ==
    {ParticleEffect(lifetime, scale_rate, rotation_rate) :
        lifetime \in {F(1000), F(5000)}, scale_rate \in {F(100), NaN},
        rotation_rate \in {F(100), NaN}}
EffectDeltas == {F(16), F(1000)}

InitEffects ==
    /\ \E n \in 1..MaxEffects :
         \E kind \in [1..n -> EffectKinds] :
            particle_effects =
               [e \in 1..n |->
                   [effect |-> kind[e],
                    transform |->
                       Transform(ZERO, IDENTITY,
                                 Vec3(F(SCALE), F(SCALE), F(SCALE)))]]
    /\ pre_effects = particle_effects
    /\ effect_results = <<>>
    /\ errors = <<>>
    /\ MagneticIdle
    /\ SphereIdle
    /\ MeshIdle
    /\ ErrorIdle
    /\ ScheduleIdle
    /\ FieldIdle
    /\ ParticleIdle
    /\ CheckIdle

update_particle_effects ==
    /\ Len(effect_results) < MaxEffectFrames
    /\ \E delta \in EffectDeltas :
          LET after ==
                 [e \in DOMAIN particle_effects |->
                     update_effect(particle_effects[e].effect,
                                   particle_effects[e].transform, delta)]
          IN  /\ particle_effects' =
                    [e \in DOMAIN particle_effects |->
                        [effect |-> after[e].effect,
                         transform |-> after[e].transform]]
              /\ effect_results' =
                    Append(effect_results,
                           [e \in DOMAIN particle_effects |->
                               after[e].result])
              /\ errors' =
                    errors \o EffectErrors(particle_effects, delta,
                                           Len(particle_effects))
    /\ pre_effects' = particle_effects
    /\ UNCHANGED <<magneticVars, sphereVars, meshVars, errorVars, ran,
                   fieldVars, particleVars, checkVars>>

NextEffects == update_particle_effects

SpecEffects == InitEffects /\ [][NextEffects]_vars

\* What update_effect returned for entity e in the latest frame.
LatestResult(e) == effect_results[Len(effect_results)][e]

\* C28 (as claimed): whenever update_effect returns an error, the transform
\* passed to it is as it was before the call.
C28_ErrorKeepsTransform ==
    effect_results # <<>> =>
        \A e \in DOMAIN particle_effects :
            ~LatestResult(e).ok =>
                particle_effects[e].transform = pre_effects[e].transform

\* C28, for the two errors returned before the scale is assigned (holds).
C28_EarlyErrorKeepsTransform ==
    effect_results # <<>> =>
        \A e \in DOMAIN particle_effects :
            (/\ ~LatestResult(e).ok
             /\ LatestResult(e).val.message # "Invalid rotation value") =>
                particle_effects[e].transform = pre_effects[e].transform

\* An expired effect and an effect of invalid scale in one frame.
C28_EarlyErrorWitness ==
    /\ effect_results # <<>>
    /\ \E e, i \in DOMAIN particle_effects :
          /\ ~LatestResult(e).ok
          /\ LatestResult(e).val.message = "Particle effect lifetime expired"
          /\ ~LatestResult(i).ok
          /\ LatestResult(i).val.message = "Invalid scale value"

(***************************************************************************)
(* error_check_system in the Update frames (err.rs, lib.rs).  SpecCheck    *)
(* runs frames as the schedule does: the clock advances, the systems that  *)
(* report errors run, then error_check_system runs, which is in the last   *)
(* set of the chain.  An entry of the list carries the number of the       *)
(* report that pushed it, so that one report is told from another.         *)
(***************************************************************************)
Reported(error) ==
    [id |-> Len(cleared) + Len(errors) + 1, error |-> error]


\* Mutant of CheckDue: the list is examined in every frame.
CheckDueAlways(current_time, delta) == TRUE

\* if current_time % ERROR_CHECK_INTERVAL < time.delta_secs()
CheckDue(current_time, delta) == current_time.v % SCALE < delta.v

\* The frame times, in 1/SCALE s.
FrameDeltas == {F(0), F(400), F(700), F(1000)}

InitCheck ==
    /\ elapsed_secs = F(0)
    /\ frame_delta = F(0)
    /\ phase = "idle"
    /\ check_pc = "idle"
    /\ fetched = <<>>
    /\ pre_check = <<>>
    /\ logged = <<>>
    /\ cleared = <<>>
    /\ errors = <<>>
    /\ MagneticIdle
    /\ SphereIdle
    /\ MeshIdle
    /\ ErrorIdle
    /\ ScheduleIdle
    /\ FieldIdle
    /\ ParticleIdle
    /\ EffectIdle

CheckFrame ==
    UNCHANGED <<magneticVars, sphereVars, meshVars, errorVars, ran,
                fieldVars, particleVars, effectVars>>

\* The clock is updated at the start of a frame.
frame_begin ==
    /\ phase # "systems"
    /\ \E delta \in FrameDeltas :
          /\ elapsed_secs.v + delta.v <= MaxSeconds * SCALE
          /\ elapsed_secs' = FAdd(elapsed_secs, delta)
          /\ frame_delta' = delta
    /\ phase' = "systems"
    /\ UNCHANGED <<errors, check_pc, fetched, pre_check, logged, cleared>>
    /\ CheckFrame

\* A system of the frame reports an error.
frame_report_error ==
    /\ phase = "systems"
    /\ Len(cleared) + Len(errors) < MaxErrors
    /\ \E error \in Errors : errors' = Push(errors, Reported(error))
    /\ UNCHANGED <<elapsed_secs, frame_delta, phase, check_pc, fetched,
                   pre_check, logged, cleared>>
    /\ CheckFrame

\* error_check_system, run after the other systems of the frame.
frame_error_check_system ==
    /\ phase = "systems"
    /\ phase' = "checked"
    /\ pre_check' = errors
    /\ IF CheckDue(elapsed_secs, frame_delta)
       THEN /\ check_pc' = "examined"
            /\ fetched' = errors
            /\ IF errors # <<>>
               THEN /\ logged' = logged \o errors
                    /\ cleared' = cleared \o errors
                    /\ errors' = <<>>
               ELSE UNCHANGED <<errors, logged, cleared>>
       ELSE /\ check_pc' = "skipped"
            /\ UNCHANGED <<errors, fetched, logged, cleared>>
    /\ UNCHANGED <<elapsed_secs, frame_delta>>
    /\ CheckFrame

NextCheck ==
    \/ frame_begin
    \/ frame_report_error
    \/ frame_error_check_system

SpecCheck == InitCheck /\ [][NextCheck]_vars

\* The frame crossed a whole-second boundary: the whole seconds elapsed are
\* more than they were before the frame's delta was added.
Crossed ==
    elapsed_secs.v \div SCALE > (elapsed_secs.v - frame_delta.v) \div SCALE

Range(list) == {list[i] : i \in DOMAIN list}

\* C21: error_check_system examines the list only in a frame where
\* elapsed mod 1 s < delta, which is a frame that crossed a whole-second
\* boundary; in such a frame every accumulated error is logged and the list
\* is empty afterwards; in every other frame the list is left as it was.  So
\* an error reported in a frame is gone after the first later check in a
\* frame that crosses a boundary.
C21_CheckOncePerSecond ==
    phase = "checked" =>
        /\ check_pc = "examined" <=> elapsed_secs.v % SCALE < frame_delta.v
        /\ check_pc = "examined" <=> Crossed
        /\ IF Crossed
           THEN /\ errors = <<>>
                /\ Range(pre_check) \subseteq Range(logged)
           ELSE /\ errors = pre_check
                /\ Range(pre_check) \cap Range(logged) = {}

\* C21 witness: two accumulated errors logged and cleared by the check of a
\* frame shorter than a second that crossed a boundary, landing past it.
C21_Witness ==
    /\ phase = "checked" /\ Crossed
    /\ Len(pre_check) = 2 /\ errors = <<>>
    /\ FGt(F(SCALE), frame_delta)
    /\ elapsed_secs.v % SCALE # 0
    /\ logged = pre_check

\* In the frames of the schedule every error removed was logged.
C21_ClearedWereLogged == Range(cleared) \subseteq Range(logged)

(***************************************************************************)
(* error_check_system beside a concurrent reporter (err.rs).  The methods  *)
(* of ErrorManager take &self and lock the list for one call each, so      *)
(* error_check_system holds no lock between get_errors() and clear().      *)
(* SpecRace runs it step by step, with report_error calls from another     *)
(* holder of the same ErrorManager between the steps.                      *)
(***************************************************************************)
InitRace == InitCheck

RaceFrame ==
    /\ UNCHANGED <<elapsed_secs, frame_delta, phase, pre_check>>
    /\ CheckFrame

\* ErrorManager::report_error, called by the other holder.
racing_report_error ==
    /\ Len(cleared) + Len(errors) < MaxErrors
    /\ \E error \in Errors : errors' = Push(errors, Reported(error))
    /\ UNCHANGED <<check_pc, fetched, logged, cleared>>
    /\ RaceFrame

\* error_check_system is entered: the time test.
error_check_begin ==
    /\ check_pc = "idle"
    /\ \E current_time \in Elapsed, delta \in Deltas :
          check_pc' = IF CheckDue(current_time, delta) THEN "get_errors"
                      ELSE "idle"
    /\ UNCHANGED <<errors, fetched, logged, cleared>>
    /\ RaceFrame

\* let errors = error_manager.get_errors(); if !errors.is_empty()
error_check_get_errors ==
    /\ check_pc = "get_errors"
    /\ fetched' = errors
    /\ check_pc' = IF errors # <<>> THEN "log" ELSE "idle"
    /\ UNCHANGED <<errors, logged, cleared>>
    /\ RaceFrame

\* for error in errors { error!("Unhandled error: {}", error); }
error_check_log ==
    /\ check_pc = "log"
    /\ logged' = logged \o fetched
    /\ check_pc' = "clear"
    /\ UNCHANGED <<errors, fetched, cleared>>
    /\ RaceFrame

\* error_manager.clear()
error_check_clear ==
    /\ check_pc = "clear"
    /\ cleared' = cleared \o errors
    /\ errors' = <<>>
    /\ check_pc' = "idle"
    /\ UNCHANGED <<fetched, logged>>
    /\ RaceFrame

NextRace ==
    \/ racing_report_error
    \/ error_check_begin
    \/ error_check_get_errors
    \/ error_check_log
    \/ error_check_clear

SpecRace == InitRace /\ [][NextRace]_vars

\* C22 (as claimed): every error error_check_system removes from the
\* ErrorManager was logged by it as unhandled first, whatever report_error
\* calls run between its steps.
C22_ClearedWereLogged ==
    \A i \in DOMAIN cleared : \E j \in DOMAIN logged : logged[j] = cleared[i]

====
